---- MODULE Spec2Model ----
(***************************************************************************)
(* A model of two parts of the hyperswitch router:                         *)
(*                                                                         *)
(*   crates/api_models/src/types.rs  Percentage<PRECISION>: from_string    *)
(*                                   and the serde visitor visit_map       *)
(*   crates/router/src/db.rs         kv_wrapper and get_and_deserialize_key*)
(*                                                                         *)
(* Text is modelled as a sequence of one-character strings, so that        *)
(* split('.'), trim_end_matches('0') and the float grammar are computed    *)
(* on the characters.                                                      *)
(***************************************************************************)
EXTENDS Integers, Sequences, FiniteSets, TLC

\* ------------------------------------------------------------------ bounds

\* longest input text given to from_string
MaxLen == 6
\* PRECISION ranges over 0..MaxPrecision
MaxPrecision == 2
\* most entries in a map handed to the Percentage visitor
MaxEntries == 3

VARIABLES
    value,              \* from_string: the text given
    precision,          \* the const generic PRECISION of the Percentage in use
    pct,                \* from_string: what it returned (NotCalled before)
    wire,               \* visit_map: the map entries, in wire order
    pos,                \* visit_map: index of the next entry of the MapAccess
    percentage_value,   \* visit_map: the local Option<String>
    decoded,            \* visit_map: what it returned (pending while in the loop)
    cache,              \* the key-value engine's entry for the key
    pc,                 \* per caller: "idle", or "await" inside kv_wrapper
    call,               \* per caller: the kv_wrapper call in progress
    hist,               \* history, per hash field: who wrote it since it was absent
    returned            \* what the step just taken returned to its caller

pctVars == <<value, precision, pct>>
deVars == <<wire, pos, percentage_value, decoded>>
kvVars == <<cache, pc, call, hist, returned>>
vars == <<value, precision, pct, wire, pos, percentage_value, decoded,
          cache, pc, call, hist, returned>>

\* ------------------------------------------------------------------- text

Chars == {"0", "1", "9", ".", "-", "e"}

IsDigit(c) == c \in {"0", "1", "2", "3", "4", "5", "6", "7", "8", "9"}

DigitVal(c) ==
    CASE c = "0" -> 0 [] c = "1" -> 1 [] c = "2" -> 2 [] c = "3" -> 3
      [] c = "4" -> 4 [] c = "5" -> 5 [] c = "6" -> 6 [] c = "7" -> 7
      [] c = "8" -> 8 [] c = "9" -> 9

Texts(n) == UNION {[1..k -> Chars] : k \in 0..n}

AllDigits(s) == \A i \in 1..Len(s) : IsDigit(s[i])

\* index of the first c in s, 0 when there is none
IndexOf(s, c) ==
    IF \E i \in 1..Len(s) : s[i] = c
    THEN CHOOSE i \in 1..Len(s) : s[i] = c /\ \A j \in 1..(i - 1) : s[j] # c
    ELSE 0

\* index of the last c in s, 0 when there is none
LastIndexOf(s, c) ==
    IF \E i \in 1..Len(s) : s[i] = c
    THEN CHOOSE i \in 1..Len(s) : s[i] = c /\ \A j \in (i + 1)..Len(s) : s[j] # c
    ELSE 0

RECURSIVE ToInt(_)
ToInt(s) ==
    IF s = <<>> THEN 0
    ELSE 10 * ToInt(SubSeq(s, 1, Len(s) - 1)) + DigitVal(s[Len(s)])

RECURSIVE Pow10(_)
Pow10(n) == IF n = 0 THEN 1 ELSE 10 * Pow10(n - 1)

RECURSIVE NumDigits(_)
NumDigits(m) == IF m < 10 THEN 1 ELSE 1 + NumDigits(m \div 10)

\* str::trim_end_matches('0')
RECURSIVE trim_end_matches_0(_)
trim_end_matches_0(s) ==
    IF s # <<>> /\ s[Len(s)] = "0"
    THEN trim_end_matches_0(SubSeq(s, 1, Len(s) - 1))
    ELSE s

\* ----------------------------------------------------- str::parse::<f32>()

(* The decimal the text denotes, by the grammar of Rust's f32::from_str:     *)
(*   [-] digits [. digits] [e [-] digits]   with a digit before or after the *)
(* point and at least one exponent digit.  ok is FALSE for any other text.   *)
(* The value is (-1)^neg * mant * 10^exp.  (The alphabet modelled has no '+',*)
(* no 'E' and none of the letters of inf / nan.)                             *)
ParseDecimal(s) ==
    LET neg == s # <<>> /\ s[1] = "-"
        body == IF neg THEN Tail(s) ELSE s
        ePos == IndexOf(body, "e")
        mantStr == IF ePos = 0 THEN body ELSE SubSeq(body, 1, ePos - 1)
        expStr == IF ePos = 0 THEN <<>> ELSE SubSeq(body, ePos + 1, Len(body))
        expNeg == expStr # <<>> /\ expStr[1] = "-"
        expDigits == IF expNeg THEN Tail(expStr) ELSE expStr
        dotPos == IndexOf(mantStr, ".")
        intStr == IF dotPos = 0 THEN mantStr ELSE SubSeq(mantStr, 1, dotPos - 1)
        fracStr == IF dotPos = 0 THEN <<>>
                   ELSE SubSeq(mantStr, dotPos + 1, Len(mantStr))
        wellFormed ==
            /\ AllDigits(intStr)
            /\ AllDigits(fracStr)
            /\ Len(intStr) + Len(fracStr) >= 1
            /\ ePos # 0 => (expDigits # <<>> /\ AllDigits(expDigits))
    IN  IF wellFormed
        THEN [ok |-> TRUE, neg |-> neg,
              mant |-> ToInt(intStr \o fracStr),
              exp |-> (IF expNeg THEN 0 - ToInt(expDigits) ELSE ToInt(expDigits))
                      - Len(fracStr)]
        ELSE [ok |-> FALSE, neg |-> FALSE, mant |-> 0, exp |-> 0]

(* Whether the decimal m * 10^e, m > 0, is so small that f32 rounds it to    *)
(* zero: m * 10^e <= 2^-150 = 7.00649232162...e-46, half the least           *)
(* subnormal (a tie goes to the even mantissa, zero).                        *)
RoundsToZero(m, e) ==
    LET d == NumDigits(m)
    IN  IF d + e <= -46 THEN TRUE
        ELSE IF d + e >= -44 THEN FALSE
        ELSE m * Pow10(9 - d) <= 700649232

(* Whether the decimal m * 10^e, m > 0, rounds to an f32 that is <= 100.0:   *)
(* m * 10^e <= 100 + 2^-18, half an ulp above 100 (the tie goes to the even  *)
(* mantissa, which is 100.0).  2^18 = 262144.                                *)
RoundsAtMost100(m, e) ==
    LET d == NumDigits(m)
    IN  IF d + e <= 2 THEN TRUE
        ELSE IF d + e >= 4 THEN FALSE
        ELSE IF e >= 0 THEN m * Pow10(e) <= 100
        ELSE (m - Pow10(1 - e)) <= (Pow10(0 - e) \div 262144)

\* Whether the decimal itself, before any rounding, lies in [0, 100].
DecimalInRange(p) ==
    \/ p.mant = 0
    \/ /\ ~p.neg
       /\ LET d == NumDigits(p.mant)
          IN  \/ d + p.exp <= 2
              \/ d + p.exp = 3 /\ p.mant = Pow10(d - 1)

RECURSIVE Canon(_, _)
Canon(m, e) == IF m # 0 /\ m % 10 = 0 THEN Canon(m \div 10, e + 1) ELSE <<m, e>>

(* The f32 the decimal parses to.  Zero keeps its sign (-0.0); what rounds   *)
(* to zero or to 100.0 is that; any other decimal stands for its nearest     *)
(* f32.                                                                      *)
F32(p) ==
    IF p.mant = 0 \/ RoundsToZero(p.mant, p.exp)
    THEN [neg |-> p.neg, mant |-> 0, exp |-> 0]
    ELSE IF ~p.neg /\ NumDigits(p.mant) + p.exp = 3 /\ RoundsAtMost100(p.mant, p.exp)
    THEN [neg |-> FALSE, mant |-> 1, exp |-> 2]
    ELSE LET c == Canon(p.mant, p.exp)
         IN  [neg |-> p.neg, mant |-> c[1], exp |-> c[2]]

\* ------------------------------------------------------------- Percentage

NoMessage == <<>>

get_invalid_percentage_error_message(P) ==
    <<"value should be a string representation float between 0 to 100 and precise to only upto ",
      P, " decimal digits">>

NoF32 == [neg |-> FALSE, mant |-> 0, exp |-> 0]

PctOk(f) == [ok |-> TRUE, percentage |-> f, error |-> "", cause |-> "",
             printable |-> NoMessage]

PctErr(cause, printable) ==
    [ok |-> FALSE, percentage |-> NoF32, error |-> "InvalidPercentageValue",
     cause |-> cause, printable |-> printable]

\* value.parse().into_report().change_context(InvalidPercentageValue)
is_valid_float_string(s) ==
    LET p == ParseDecimal(s)
    IN  IF p.ok THEN [ok |-> TRUE, float |-> F32(p)]
        ELSE [ok |-> FALSE, float |-> NoF32]

\* (0.0..=100.0).contains(&value): 0.0 <= value && value <= 100.0, and
\* -0.0 compares equal to 0.0
is_valid_range(f) ==
    \/ f.mant = 0
    \/ ~f.neg /\ RoundsAtMost100(f.mant, f.exp)

is_valid_precision_length(s, P) ==
    IF IndexOf(s, ".") # 0
    THEN LET decimal_part == SubSeq(s, LastIndexOf(s, ".") + 1, Len(s))
         IN  Len(trim_end_matches_0(decimal_part)) <= P
    ELSE TRUE

is_valid_string_value(s, P) ==
    LET float_value == is_valid_float_string(s)
    IN  IF ~float_value.ok THEN [ok |-> FALSE, val |-> FALSE]
        ELSE [ok |-> TRUE,
              val |-> is_valid_range(float_value.float)
                      /\ is_valid_precision_length(s, P)]

from_string(s, P) ==
    LET valid == is_valid_string_value(s, P)
    IN  IF ~valid.ok THEN PctErr("ParseFloatError", NoMessage)
        ELSE IF valid.val
        THEN LET parsed == is_valid_float_string(s)
             IN  IF parsed.ok THEN PctOk(parsed.float)
                 ELSE PctErr("ParseFloatError", NoMessage)
        ELSE PctErr("", get_invalid_percentage_error_message(P))

NotCalled == [ok |-> FALSE, percentage |-> NoF32, error |-> "not called",
              cause |-> "", printable |-> NoMessage]

\* ---------------------------------------------- PercentageVisitor::visit_map

None == <<>>
Some(x) == <<x>>

\* the texts a "percentage" entry carries in the maps modelled
WireTexts ==
    { <<"1", ".", "1">>, <<"1", "0", "1">>, <<"e">>, <<"1", ".", "1", "1", "1">> }

\* A map entry: its key, and its value, which is a string or another JSON value.
Entries ==
    [key : {"percentage"}, is_string : {TRUE}, val : WireTexts]
    \cup [key : {"percentage", "other"}, is_string : {FALSE}, val : {<<>>}]
    \cup [key : {"other"}, is_string : {TRUE}, val : {<<"1", ".", "1">>}]

Maps(n) == UNION {[1..k -> Entries] : k \in 0..n}

Pending == [status |-> "pending", percentage |-> NoF32, error |-> "",
            expected |-> NoMessage]

DeOk(f) == [status |-> "ok", percentage |-> f, error |-> "", expected |-> NoMessage]

DeErr(e, expected) ==
    [status |-> "err", percentage |-> NoF32, error |-> e, expected |-> expected]

\* mutant: a second "percentage" entry replaces the first
visit_entry_last_wins(pv, e) ==
    IF e.key = "percentage"
    THEN IF ~e.is_string THEN [pv |-> pv, error |-> "invalid_type"]
         ELSE [pv |-> Some(e.val), error |-> ""]
    ELSE [pv |-> pv, error |-> ""]

(* One turn of the while loop on entry e with the local pv: the new local   *)
(* and the error returned, "" when the loop goes on.                         *)
visit_entry(pv, e) ==
    IF e.key = "percentage"
    THEN IF pv # None THEN [pv |-> pv, error |-> "duplicate_field"]
         ELSE IF ~e.is_string THEN [pv |-> pv, error |-> "invalid_type"]
         ELSE [pv |-> Some(e.val), error |-> ""]
    ELSE [pv |-> pv, error |-> ""]

\* after the loop: from_string on the value kept, or missing_field
visit_finish(pv, P) ==
    IF pv # None
    THEN LET r == from_string(pv[1], P)
         IN  IF r.ok THEN DeOk(r.percentage)
             ELSE DeErr("invalid_value", get_invalid_percentage_error_message(P))
    ELSE DeErr("missing_field", NoMessage)

\* ---------------------------------------------------------------- actions

CallFromString ==
    /\ pct = NotCalled
    /\ pct' = from_string(value, precision)
    /\ UNCHANGED <<value, precision, deVars, kvVars>>

VisitNextKey ==
    /\ decoded = Pending
    /\ pos <= Len(wire)
    /\ LET r == visit_entry(percentage_value, wire[pos])
       IN  IF r.error # ""
           THEN /\ decoded' = DeErr(r.error, NoMessage)
                /\ UNCHANGED <<pos, percentage_value>>
           ELSE /\ percentage_value' = r.pv
                /\ pos' = pos + 1
                /\ UNCHANGED decoded
    /\ UNCHANGED <<wire, pctVars, kvVars>>

VisitEnd ==
    /\ decoded = Pending
    /\ pos > Len(wire)
    /\ decoded' = visit_finish(percentage_value, precision)
    /\ UNCHANGED <<wire, pos, percentage_value, pctVars, kvVars>>

\* ------------------------------------------------- the key-value engine

(* Serialized text is modelled as <<"json", v>>, the JSON document of the    *)
(* payload v, and <<"raw">>, a text that is no JSON document of any payload. *)
Payloads == {"p1", "p2"}
Some_KV_TTL == <<"KV_TTL">>
Absent == <<>>
RawText == <<"raw">>

\* serde_json::to_string
Serialize(v) == <<"json", v>>

\* what each target type accepts: T any payload, U only p2
TypeNames == {"T", "U"}
Shape(tn) == IF tn = "T" THEN Payloads ELSE {"p2"}

\* parse_struct(type_name): serde_json::from_slice into the target type
parse_struct(text, tn) ==
    IF Len(text) = 2 /\ text[1] = "json" /\ text[2] \in Shape(tn)
    THEN [ok |-> TRUE, val |-> text[2]]
    ELSE [ok |-> FALSE, val |-> ""]

\* the texts callers hand to Hset, and the payloads they hand to SetNx
HsetTexts == {Serialize("p1"), RawText}
SetNxPayloads == {"p1"}

\* hash field names and scan patterns, as characters
Fields == { <<"a", "1">>, <<"b", "1">> }
Patterns == { <<"*">>, <<"a", "*">>, <<"z", "*">> }

\* glob match of pattern p against the field name s ('*' is the only wildcard)
RECURSIVE Glob(_, _)
Glob(p, s) ==
    IF p = <<>> THEN s = <<>>
    ELSE IF p[1] = "*" THEN Glob(Tail(p), s) \/ (s # <<>> /\ Glob(p, Tail(s)))
    ELSE s # <<>> /\ s[1] = p[1] /\ Glob(Tail(p), Tail(s))

\* The engine's entry for the key: nothing, a hash, or a plain string.
EmptyEntry ==
    [kind |-> "none", hash |-> [f \in Fields |-> Absent], str |-> Absent,
     ttl |-> "none"]

\* the expiry a command sets: the one given, else the engine's configured one
ExpiryOf(ttl) == IF ttl = None THEN "default_hash_ttl" ELSE ttl[1]

NoCmd == [name |-> "", field |-> <<>>, text |-> <<>>, value |-> "",
          pattern |-> <<>>, ttl |-> None, type_name |-> ""]

Reply(e) == [ok |-> TRUE, error |-> "", val |-> "", reply |-> "", vals |-> <<>>,
             entry |-> e]

Failure(err, e) == [ok |-> FALSE, error |-> err, val |-> "", reply |-> "",
                    vals |-> <<>>, entry |-> e]

\* HSET then EXPIRE
set_hash_fields(e, c) ==
    IF e.kind = "string" THEN {Failure("WrongType", e)}
    ELSE {Reply([e EXCEPT !.kind = "hash", !.hash[c.field] = c.text,
                          !.ttl = ExpiryOf(c.ttl)])}

\* HGET, then the value parsed into the caller's type
get_hash_field_and_deserialize(e, c) ==
    IF e.kind = "string" THEN {Failure("WrongType", e)}
    ELSE IF e.hash[c.field] = Absent THEN {Failure("NotFound", e)}
    ELSE LET p == parse_struct(e.hash[c.field], c.type_name)
         IN  IF p.ok THEN {[Reply(e) EXCEPT !.val = p.val]}
             ELSE {Failure("JsonDeserializationFailed", e)}

\* the orders in which the engine may enumerate the fields of M
Orders(M) ==
    {s \in [1..Cardinality(M) -> M] : \A i, j \in 1..Cardinality(M) : s[i] = s[j] => i = j}

\* HSCAN MATCH pattern, each value parsed into the caller's type
hscan_and_deserialize(e, c) ==
    IF e.kind = "string" THEN {Failure("WrongType", e)}
    ELSE LET M == {f \in Fields : e.hash[f] # Absent /\ Glob(c.pattern, f)}
         IN  IF \E f \in M : ~parse_struct(e.hash[f], c.type_name).ok
             THEN {Failure("JsonDeserializationFailed", e)}
             ELSE {[Reply(e) EXCEPT
                      !.vals = [i \in 1..Cardinality(M) |->
                                   parse_struct(e.hash[s[i]], c.type_name).val]]
                   : s \in Orders(M)}

\* HSETNX of the serialized value, then EXPIRE
serialize_and_set_hash_field_if_not_exist(e, c) ==
    IF e.kind = "string" THEN {Failure("WrongType", e)}
    ELSE IF e.hash[c.field] # Absent
    THEN {[Reply([e EXCEPT !.ttl = ExpiryOf(c.ttl)]) EXCEPT !.reply = "KeyNotSet"]}
    ELSE {[Reply([e EXCEPT !.kind = "hash", !.hash[c.field] = Serialize(c.value),
                           !.ttl = ExpiryOf(c.ttl)]) EXCEPT !.reply = "KeySet"]}

\* SET key value EX ttl NX
serialize_and_set_key_if_not_exist(e, c) ==
    IF e.kind # "none" THEN {[Reply(e) EXCEPT !.reply = "KeyNotSet"]}
    ELSE {[Reply([e EXCEPT !.kind = "string", !.str = Serialize(c.value),
                           !.ttl = ExpiryOf(c.ttl)]) EXCEPT !.reply = "KeySet"]}

\* GET key: the raw bytes of a plain string
get_key(e) ==
    IF e.kind = "none" THEN Failure("NotFound", e)
    ELSE IF e.kind = "hash" THEN Failure("WrongType", e)
    ELSE [Reply(e) EXCEPT !.val = e.str]

(* What the engine may answer to command c on entry e: the command's own     *)
(* outcome, or a failure of the engine or of the way to it, which leaves the *)
(* entry as it was.                                                          *)
Engine(e, c) ==
    {Failure("EngineFailure", e)} \cup
    CASE c.name = "set_hash_fields" -> set_hash_fields(e, c)
      [] c.name = "get_hash_field_and_deserialize" -> get_hash_field_and_deserialize(e, c)
      [] c.name = "hscan_and_deserialize" -> hscan_and_deserialize(e, c)
      [] c.name = "serialize_and_set_hash_field_if_not_exist" ->
            serialize_and_set_hash_field_if_not_exist(e, c)
      [] c.name = "serialize_and_set_key_if_not_exist" ->
            serialize_and_set_key_if_not_exist(e, c)

\* ------------------------------------------------------------- kv_wrapper

Callers == {"c1", "c2"}

NoOp == [tag |-> "", field |-> <<>>, text |-> <<>>, value |-> "", pattern |-> <<>>]

\* KvOperation<S>: the five variants with their payloads
KvOperation ==
    {[NoOp EXCEPT !.tag = "Hset", !.field = f, !.text = t] :
        f \in Fields, t \in HsetTexts}
    \cup {[NoOp EXCEPT !.tag = "SetNx", !.value = v] : v \in SetNxPayloads}
    \cup {[NoOp EXCEPT !.tag = "HSetNx", !.field = f, !.value = v] :
             f \in Fields, v \in Payloads}
    \cup {[NoOp EXCEPT !.tag = "Get", !.field = f] : f \in Fields}
    \cup {[NoOp EXCEPT !.tag = "Scan", !.pattern = p] : p \in Patterns}

\* the engine command of each match arm; T is the caller's result type
match_arm(op) ==
    CASE op.tag = "Hset" ->
            [NoCmd EXCEPT !.name = "set_hash_fields", !.field = op.field,
                          !.text = op.text, !.ttl = Some_KV_TTL]
      [] op.tag = "Get" ->
            [NoCmd EXCEPT !.name = "get_hash_field_and_deserialize",
                          !.field = op.field, !.type_name = "T"]
      [] op.tag = "Scan" ->
            [NoCmd EXCEPT !.name = "hscan_and_deserialize", !.pattern = op.pattern,
                          !.type_name = "T"]
      [] op.tag = "HSetNx" ->
            [NoCmd EXCEPT !.name = "serialize_and_set_hash_field_if_not_exist",
                          !.field = op.field, !.value = op.value, !.ttl = Some_KV_TTL]
      [] op.tag = "SetNx" ->
            [NoCmd EXCEPT !.name = "serialize_and_set_key_if_not_exist",
                          !.value = op.value, !.ttl = Some_KV_TTL]

\* mutant: the Hset arm passes no expiry
kv_command_no_ttl(op) ==
    IF op.tag = "Hset" THEN [match_arm(op) EXCEPT !.ttl = None] ELSE match_arm(op)

\* mutant: the HSetNx arm writes the field unconditionally
kv_command_hsetnx_overwrites(op) ==
    IF op.tag = "HSetNx"
    THEN [match_arm(op) EXCEPT !.name = "set_hash_fields",
                               !.text = Serialize(op.value)]
    ELSE match_arm(op)

\* mutant: the Get arm reads another field than the one asked for
kv_command_get_other_field(op) ==
    IF op.tag = "Get"
    THEN [match_arm(op) EXCEPT !.field = CHOOSE f \in Fields : f # op.field]
    ELSE match_arm(op)

\* mutant: the Scan arm drops the caller's pattern and scans every field
kv_command_scan_all(op) ==
    IF op.tag = "Scan" THEN [match_arm(op) EXCEPT !.pattern = <<"*">>]
    ELSE match_arm(op)

\* what kv_wrapper sends for op
kv_command(op) == match_arm(op)

(* The commands one call sends: none when store.get_redis_conn()? returns    *)
(* early, else the one of the match arm.                                     *)
kv_commands(conn_ok, op) == IF conn_ok THEN <<kv_command(op)>> ELSE <<>>

NoResult == [ok |-> FALSE, tag |-> "", val |-> "", reply |-> "", vals |-> <<>>,
             error |-> ""]

KvErr(err) == [NoResult EXCEPT !.error = err]

(* The CustomResult<KvResult<T>, RedisError> of a call whose command got the *)
(* answer r: the ? on an error, else the arm's KvResult variant.             *)
arm_result(op, r) ==
    IF ~r.ok THEN KvErr(r.error)
    ELSE CASE op.tag = "Hset" -> [NoResult EXCEPT !.ok = TRUE, !.tag = "Hset"]
           [] op.tag = "Get" -> [NoResult EXCEPT !.ok = TRUE, !.tag = "Get", !.val = r.val]
           [] op.tag = "Scan" ->
                 [NoResult EXCEPT !.ok = TRUE, !.tag = "Scan", !.vals = r.vals]
           [] op.tag = "HSetNx" ->
                 [NoResult EXCEPT !.ok = TRUE, !.tag = "HSetNx", !.reply = r.reply]
           [] op.tag = "SetNx" ->
                 [NoResult EXCEPT !.ok = TRUE, !.tag = "SetNx", !.reply = r.reply]

\* mutant: the HSetNx arm wraps its reply in the SetNx variant
kv_result_wrong_variant(op, r) ==
    IF r.ok /\ op.tag = "HSetNx" THEN [arm_result(op, r) EXCEPT !.tag = "SetNx"]
    ELSE arm_result(op, r)

\* mutant: a Scan that finds nothing to read returns an empty sequence
kv_result_error_as_empty(op, r) ==
    IF ~r.ok /\ op.tag = "Scan" /\ r.error # "EngineFailure"
    THEN [NoResult EXCEPT !.ok = TRUE, !.tag = "Scan"]
    ELSE arm_result(op, r)

\* what kv_wrapper returns for op whose command got the answer r
kv_result(op, r) == arm_result(op, r)

\* mutant: a missing key reads as the type's default value
get_and_deserialize_key_default(r, tn) ==
    IF ~r.ok
    THEN IF r.error = "NotFound"
         THEN [result |-> [NoResult EXCEPT !.ok = TRUE, !.val = "p2"],
               parsed |-> FALSE, type_name |-> ""]
         ELSE [result |-> KvErr(r.error), parsed |-> FALSE, type_name |-> ""]
    ELSE LET p == parse_struct(r.val, tn)
         IN  IF p.ok
             THEN [result |-> [NoResult EXCEPT !.ok = TRUE, !.val = p.val],
                   parsed |-> TRUE, type_name |-> ""]
             ELSE [result |-> KvErr("JsonDeserializationFailed"), parsed |-> TRUE,
                   type_name |-> tn]

(* get_and_deserialize_key on the answer r of db.get_key(key): the ? on an   *)
(* error, else parse_struct with its failure turned into                     *)
(* JsonDeserializationFailed.  parsed tells whether parse_struct ran.        *)
get_and_deserialize_key(r, tn) ==
    IF ~r.ok THEN [result |-> KvErr(r.error), parsed |-> FALSE, type_name |-> ""]
    ELSE LET p == parse_struct(r.val, tn)
         IN  IF p.ok
             THEN [result |-> [NoResult EXCEPT !.ok = TRUE, !.val = p.val],
                   parsed |-> TRUE, type_name |-> ""]
             ELSE [result |-> KvErr("JsonDeserializationFailed"), parsed |-> TRUE,
                   type_name |-> tn]

\* ---------------------------------------------------------------- history

NoHist == [by |-> "", created |-> 0, existed |-> FALSE, value |-> "", text |-> <<>>]

\* the history after command c got the answer r
Recorded(h, c, r) ==
    IF ~r.ok THEN h
    ELSE IF c.name = "set_hash_fields"
    THEN [h EXCEPT ![c.field] = [NoHist EXCEPT !.by = "Hset", !.text = c.text]]
    ELSE IF c.name = "serialize_and_set_hash_field_if_not_exist"
    THEN IF r.reply = "KeySet"
         THEN [h EXCEPT ![c.field] =
                  [@ EXCEPT !.by = IF @ = "" THEN "HSetNx" ELSE @,
                            !.created = IF @ < 2 THEN @ + 1 ELSE @,
                            !.value = c.value]]
         ELSE IF h[c.field].by = "HSetNx"
         THEN [h EXCEPT ![c.field].existed = TRUE]
         ELSE h
    ELSE h

NoCall == [op |-> NoOp, conn_ok |-> FALSE, todo |-> <<>>, issued |-> 0]

NoReturn ==
    [kind |-> "", op |-> NoOp, conn_ok |-> FALSE, issued |-> 0,
     cmd |-> NoCmd, answer |-> "", result |-> NoResult, before |-> EmptyEntry,
     parsed |-> FALSE, type_name |-> ""]

\* ------------------------------------------------------------- kv actions

(* kv_wrapper up to its await: the connection is taken (or not), the command *)
(* of the match arm is sent.  With no command sent the call returns here.    *)
KvCall(c, op, conn_ok) ==
    /\ pc[c] = "idle"
    /\ LET todo == kv_commands(conn_ok, op)
       IN  IF todo = <<>>
           THEN /\ returned' = [NoReturn EXCEPT
                                   !.kind = "kv", !.op = op,
                                   !.conn_ok = conn_ok, !.before = cache,
                                   !.result = IF conn_ok THEN NoResult
                                              ELSE KvErr("RedisConnectionError")]
                /\ UNCHANGED <<pc, call>>
           ELSE /\ pc' = [pc EXCEPT ![c] = "await"]
                /\ call' = [call EXCEPT ![c] = [op |-> op, conn_ok |-> conn_ok,
                                                todo |-> todo, issued |-> 0]]
                /\ returned' = NoReturn
    /\ UNCHANGED <<cache, hist, pctVars, deVars>>

(* The engine runs the command a caller awaits and kv_wrapper goes on from   *)
(* its await: it returns the error or the result, or awaits its next command.*)
EngineReply(c) ==
    /\ pc[c] = "await"
    /\ LET cmd == Head(call[c].todo)
       IN  \E r \in Engine(cache, cmd) :
            /\ cache' = r.entry
            /\ hist' = Recorded(hist, cmd, r)
            /\ IF r.ok /\ Tail(call[c].todo) # <<>>
               THEN /\ call' = [call EXCEPT ![c].todo = Tail(@), ![c].issued = @ + 1]
                    /\ returned' = NoReturn
                    /\ UNCHANGED pc
               ELSE /\ returned' = [NoReturn EXCEPT
                                       !.kind = "kv", !.op = call[c].op,
                                       !.conn_ok = call[c].conn_ok,
                                       !.issued = call[c].issued + 1, !.cmd = cmd,
                                       !.answer = r.error, !.before = cache,
                                       !.result = kv_result(call[c].op, r)]
                    /\ pc' = [pc EXCEPT ![c] = "idle"]
                    /\ call' = [call EXCEPT ![c] = NoCall]
    /\ UNCHANGED <<pctVars, deVars>>

\* get_and_deserialize_key(db, key, type_name), db.get_key failing or not
ReadKey(tn, conn_ok) ==
    /\ LET r == IF conn_ok THEN get_key(cache)
                ELSE Failure("RedisConnectionError", cache)
           g == get_and_deserialize_key(r, tn)
       IN  returned' = [NoReturn EXCEPT
                           !.kind = "read", !.conn_ok = conn_ok, !.answer = r.error,
                           !.before = cache, !.result = g.result,
                           !.parsed = g.parsed, !.type_name = g.type_name,
                           !.cmd = [NoCmd EXCEPT !.name = "get_key", !.type_name = tn]]
    /\ UNCHANGED <<cache, pc, call, hist, pctVars, deVars>>

\* the entry's time to live runs out: the engine drops the key
Expire ==
    /\ cache.kind # "none"
    /\ cache.ttl # "none"
    /\ cache' = EmptyEntry
    /\ hist' = [f \in Fields |-> NoHist]
    /\ returned' = NoReturn
    /\ UNCHANGED <<pc, call, pctVars, deVars>>

\* --------------------------------------------------------- specifications

InitKv ==
    /\ cache = EmptyEntry
    /\ pc = [c \in Callers |-> "idle"]
    /\ call = [c \in Callers |-> NoCall]
    /\ hist = [f \in Fields |-> NoHist]
    /\ returned = NoReturn

InitPct ==
    /\ value \in Texts(MaxLen)
    /\ precision \in 0..MaxPrecision
    /\ pct = NotCalled
    /\ wire = <<>>
    /\ pos = 1
    /\ percentage_value = None
    /\ decoded = Pending
    /\ InitKv

NextPct == CallFromString

SpecPct == InitPct /\ [][NextPct]_vars

InitDe ==
    /\ value = <<>>
    /\ precision \in 0..MaxPrecision
    /\ pct = NotCalled
    /\ wire \in Maps(MaxEntries)
    /\ pos = 1
    /\ percentage_value = None
    /\ decoded = Pending
    /\ InitKv

NextDe == VisitNextKey \/ VisitEnd

SpecDe == InitDe /\ [][NextDe]_vars

Init ==
    /\ value = <<>>
    /\ precision = 0
    /\ pct = NotCalled
    /\ wire = <<>>
    /\ pos = 1
    /\ percentage_value = None
    /\ decoded = Pending
    /\ InitKv

Next ==
    \/ \E c \in Callers, op \in KvOperation, conn_ok \in BOOLEAN : KvCall(c, op, conn_ok)
    \/ \E c \in Callers : EngineReply(c)
    \/ \E tn \in TypeNames, conn_ok \in BOOLEAN : ReadKey(tn, conn_ok)
    \/ Expire

Spec == Init /\ [][Next]_vars

\* ================================================================= claims

\* ------------------------------------------------------------------- C1
(* C1: whenever kv_wrapper returns successfully, the KvResult variant is the *)
(* one with the tag of the KvOperation asked for.                            *)
C1_ResultVariantMatchesOperation ==
    (returned.kind = "kv" /\ returned.result.ok)
        => returned.result.tag = returned.op.tag

C1_Witness ==
    /\ returned.kind = "kv"
    /\ returned.result.ok
    /\ returned.op.tag = "HSetNx"
    /\ returned.result.reply = "KeyNotSet"

\* ------------------------------------------------------------------- C2
WriteCommands ==
    {"set_hash_fields", "serialize_and_set_hash_field_if_not_exist",
     "serialize_and_set_key_if_not_exist"}

(* C2: every write command kv_wrapper sends to the engine carries the expiry *)
(* KV_TTL and no other: the commands awaiting the engine, the command of     *)
(* every write that returned successfully, and the expiry the engine holds   *)
(* for the key whenever the key exists.                                      *)
C2_WritesCarryKvTtl ==
    /\ \A c \in Callers : \A i \in 1..Len(call[c].todo) :
          call[c].todo[i].name \in WriteCommands
              => call[c].todo[i].ttl = Some_KV_TTL
    /\ (returned.kind = "kv" /\ returned.result.ok
            /\ returned.op.tag \in {"Hset", "HSetNx", "SetNx"})
          => (returned.cmd.name \in WriteCommands /\ returned.cmd.ttl = Some_KV_TTL)
    /\ cache.kind # "none" => cache.ttl = "KV_TTL"

C2_Witness ==
    /\ returned.kind = "kv"
    /\ returned.result.ok
    /\ returned.op.tag = "Hset"
    /\ returned.before.kind = "none"
    /\ cache.kind = "hash"
    /\ cache.ttl = "KV_TTL"

\* ------------------------------------------------------------------- C3
(* C3: of the HSetNx calls on one field made while the entry lives, issued   *)
(* by any callers in any interleaving, exactly one is answered KeySet        *)
(* (created) and every other one KeyNotSet (already exists), and the field   *)
(* holds the serialized value of the call answered KeySet.  A call is        *)
(* answered KeySet exactly when the field was absent.                        *)
C3_HSetNxCreatesOnce ==
    /\ \A f \in Fields :
          hist[f].by = "HSetNx"
              => (hist[f].created = 1 /\ cache.hash[f] = Serialize(hist[f].value))
    /\ (returned.kind = "kv" /\ returned.result.ok /\ returned.op.tag = "HSetNx")
          => /\ returned.result.reply \in {"KeySet", "KeyNotSet"}
             /\ returned.result.reply = "KeySet"
                    <=> returned.before.hash[returned.op.field] = Absent
             /\ returned.result.reply = "KeySet"
                    => cache.hash[returned.op.field] = Serialize(returned.op.value)
             /\ returned.result.reply = "KeyNotSet"
                    => cache.hash[returned.op.field]
                           = returned.before.hash[returned.op.field]

\* a second HSetNx with another value, answered KeyNotSet, the first value kept
C3_Witness ==
    /\ returned.kind = "kv"
    /\ returned.result.ok
    /\ returned.op.tag = "HSetNx"
    /\ returned.result.reply = "KeyNotSet"
    /\ hist[returned.op.field].by = "HSetNx"
    /\ hist[returned.op.field].existed
    /\ hist[returned.op.field].value # returned.op.value
    /\ \E c \in Callers : pc[c] = "await" /\ call[c].op.tag = "HSetNx"

\* ------------------------------------------------------------------- C4
(* C4: a Get of a field whose last write was a successful Hset of text t,    *)
(* the entry not expired since, returns when it succeeds the value whose     *)
(* serialization t is; and when t is the serialization of a value the Get    *)
(* fails only for the connection or the engine, never in deserializing.      *)
C4_HsetGetRoundTrip ==
    (returned.kind = "kv" /\ returned.op.tag = "Get"
        /\ hist[returned.op.field].by = "Hset")
        => LET t == hist[returned.op.field].text
           IN  /\ returned.result.ok
                    => \E v \in Payloads : t = Serialize(v) /\ returned.result.val = v
               /\ (\E v \in Payloads : t = Serialize(v))
                    => \/ returned.result.ok
                       \/ returned.result.error
                              \in {"RedisConnectionError", "EngineFailure"}

C4_Witness ==
    /\ returned.kind = "kv"
    /\ returned.op.tag = "Get"
    /\ returned.result.ok
    /\ hist[returned.op.field].by = "Hset"
    /\ returned.result.val = "p1"
    /\ \E f \in Fields : f # returned.op.field /\ cache.hash[f] = Serialize("p2")

\* ------------------------------------------------------------------- C5
\* the hash fields of entry e that pattern p matches
Matching(e, p) == {f \in Fields : e.hash[f] # Absent /\ Glob(p, f)}

(* C5: a Scan that succeeds returns, as a set, exactly the values of the     *)
(* key's hash fields that the pattern matches; and a Scan that matches       *)
(* nothing is a success with an empty sequence, unless the connection or the *)
(* engine fails or the key holds a plain string.                             *)
C5_ScanReturnsMatchingValues ==
    (returned.kind = "kv" /\ returned.op.tag = "Scan")
        => LET M == Matching(returned.before, returned.op.pattern)
               vals == returned.result.vals
           IN  /\ returned.result.ok
                    => /\ {vals[i] : i \in 1..Len(vals)}
                            = {v \in Payloads : \E f \in M :
                                   returned.before.hash[f] = Serialize(v)}
                       /\ Len(vals) = Cardinality(M)
               /\ M = {}
                    => \/ returned.result.ok /\ vals = <<>>
                       \/ returned.result.error
                              \in {"RedisConnectionError", "EngineFailure", "WrongType"}

\* one field matches and is returned, another holds a value and is left out
C5_Witness ==
    /\ returned.kind = "kv"
    /\ returned.op.tag = "Scan"
    /\ returned.result.ok
    /\ Len(returned.result.vals) = 1
    /\ \A f \in Fields : cache.hash[f] # Absent
    /\ cache.hash[<<"a", "1">>] # cache.hash[<<"b", "1">>]

\* ------------------------------------------------------------------- C6
\* the precision check as the claim words it, on the text after the point
ClaimedPrecisionOk(s, P) ==
    IndexOf(s, ".") = 0
    \/ Len(trim_end_matches_0(SubSeq(s, IndexOf(s, ".") + 1, Len(s)))) <= P

(* C6: from_string succeeds exactly when the text is a number whose value    *)
(* lies in [0, 100] and whose fractional digits, trailing zeros stripped,    *)
(* are at most PRECISION; every other text fails with                        *)
(* InvalidPercentageValue.                                                   *)
C6_FromStringAcceptsExactlyValid ==
    pct # NotCalled
        => /\ pct.ok <=> /\ ParseDecimal(value).ok
                         /\ DecimalInRange(ParseDecimal(value))
                         /\ ClaimedPrecisionOk(value, precision)
           /\ ~pct.ok => pct.error = "InvalidPercentageValue"

\* ------------------------------------------------------------------- C7
(* C7: every failure of from_string and every failure of decoding a          *)
(* Percentage carries the message stating the configured precision, and the  *)
(* failures of from_string are all InvalidPercentageValue.                   *)
C7_FailuresStateThePrecision ==
    /\ (pct # NotCalled /\ ~pct.ok)
          => /\ pct.error = "InvalidPercentageValue"
             /\ pct.printable = get_invalid_percentage_error_message(precision)
    /\ decoded.status = "err"
          => decoded.expected = get_invalid_percentage_error_message(precision)

\* ------------------------------------------------------------------- C8
\* the entries named "percentage", in wire order
PercentageEntries(w) == SelectSeq(w, LAMBDA e : e.key = "percentage")

\* what decoding the text s alone gives: from_string's verdict
DecodedAs(s, P) ==
    IF from_string(s, P).ok THEN DeOk(from_string(s, P).percentage)
    ELSE DeErr("invalid_value", get_invalid_percentage_error_message(P))

(* C8 as stated: none named "percentage" is a missing-field error, two or    *)
(* more a duplicate-field error, exactly one decodes as from_string does on  *)
(* its string; other entries never matter.                                   *)
C8_OutcomeByPercentageEntries ==
    decoded.status # "pending"
        => LET L == PercentageEntries(wire)
           IN  /\ L = <<>> => decoded = DeErr("missing_field", NoMessage)
               /\ Len(L) >= 2 => decoded = DeErr("duplicate_field", NoMessage)
               /\ (Len(L) = 1 /\ L[1].is_string)
                    => decoded = DecodedAs(L[1].val, precision)

(* C8 amended: the outcome depends only on the entries named "percentage":   *)
(* none is a missing-field error; a first one whose value is not a string is *)
(* an invalid-type error raised at that entry; otherwise two or more is a    *)
(* duplicate-field error raised at the second, before any value is           *)
(* validated; otherwise the one string decodes as from_string does on it.    *)
C8_OutcomeByPercentageEntriesInOrder ==
    decoded.status # "pending"
        => LET L == PercentageEntries(wire)
           IN  decoded =
                 IF L = <<>> THEN DeErr("missing_field", NoMessage)
                 ELSE IF ~L[1].is_string THEN DeErr("invalid_type", NoMessage)
                 ELSE IF Len(L) >= 2 THEN DeErr("duplicate_field", NoMessage)
                 ELSE DecodedAs(L[1].val, precision)

\* a duplicate after an invalid first value, with another entry in between
C8_Witness ==
    /\ decoded = DeErr("duplicate_field", NoMessage)
    /\ Len(wire) = 3
    /\ wire[1].key = "percentage"
    /\ wire[1].is_string
    /\ ~from_string(wire[1].val, precision).ok
    /\ wire[2].key = "other"
    /\ wire[3].key = "percentage"

\* ------------------------------------------------------------------- C9
(* C9: get_and_deserialize_key returns the error of the read unchanged and   *)
(* parses nothing when the read fails (a missing key included); fails with   *)
(* JsonDeserializationFailed for the given type name when the bytes read do  *)
(* not parse as the type; and returns a value only when the read succeeded   *)
(* and its bytes parsed, the value being those bytes' parse.                 *)
C9_ReaderSubstitutesNothing ==
    returned.kind = "read"
        => LET tn == returned.cmd.type_name
               bytes == returned.before.str
               parses == \E v \in Shape(tn) : bytes = Serialize(v)
           IN  /\ returned.before.kind = "none" => ~returned.result.ok
               /\ returned.answer # ""
                    => (returned.result = KvErr(returned.answer) /\ ~returned.parsed)
               /\ returned.answer = ""
                    => /\ returned.before.kind = "string"
                       /\ returned.parsed
                       /\ returned.result.ok <=> parses
                       /\ returned.result.ok
                            => Serialize(returned.result.val) = bytes
                       /\ ~returned.result.ok
                            => /\ returned.result = KvErr("JsonDeserializationFailed")
                               /\ returned.type_name = tn

\* the key holds the JSON of p1, read as the type U, which it does not fit
C9_Witness ==
    /\ returned.kind = "read"
    /\ returned.answer = ""
    /\ returned.result = KvErr("JsonDeserializationFailed")
    /\ returned.type_name = "U"

\* ------------------------------------------------------------------ C10
(* C10: a kv_wrapper call sends no command when taking the connection fails  *)
(* (it returns the connection error and the cache is as it was) and exactly  *)
(* one otherwise; an error of the engine is returned as it is, and a call    *)
(* whose command succeeded returns a result.                                 *)
C10_OneCommandPerCall ==
    /\ \A c \in Callers :
          pc[c] = "await"
              => (call[c].conn_ok /\ call[c].issued = 0 /\ Len(call[c].todo) = 1)
    /\ returned.kind = "kv"
          => /\ ~returned.conn_ok
                  => /\ returned.issued = 0
                     /\ returned.result = KvErr("RedisConnectionError")
                     /\ cache = returned.before
             /\ returned.conn_ok => returned.issued = 1
             /\ returned.answer # "" => returned.result = KvErr(returned.answer)
             /\ (returned.conn_ok /\ returned.answer = "") => returned.result.ok

\* an engine error handed back as it is, after the one command of the call
C10_Witness ==
    /\ returned.kind = "kv"
    /\ returned.conn_ok
    /\ returned.issued = 1
    /\ returned.answer = "NotFound"
    /\ returned.result = KvErr("NotFound")
    /\ returned.op.tag = "Get"

====
